---- MODULE Spec2Model ----
(***************************************************************************)
(* Model of drivers/socomec_jbus.c, the NUT driver for Socomec JBUS UPSes. *)
(*                                                                         *)
(* The driver is single threaded: the surrounding process calls one entry  *)
(* point at a time (upsdrv_initups, upsdrv_initinfo, upsdrv_updateinfo,    *)
(* instcmd, setvar, upsdrv_shutdown), so each entry point is one action.   *)
(* What the transport, the configuration source and the publication sink   *)
(* answer is an input of the action.  The variable "last" is the record of *)
(* what the most recent entry point did (registers written, value          *)
(* returned, status committed), which is what its caller observes.         *)
(***************************************************************************)
EXTENDS Integers, Sequences, FiniteSets, TLC

VARIABLES
    pc,                  \* where the surrounding process is in the driver's life
    sch_delay_off,       \* uint16_t, seconds before the UPS goes to standby
    sch_min_off,         \* uint16_t, minutes of standby
    sch_scheduletype,    \* uint16_t, scheduling type
    battery_charge_low,  \* int, low-battery threshold in percent
    ups_model,           \* int, set by upsdrv_initinfo
    DISCHARGING_FLAG,    \* int, -1 unknown, 0 not discharging, 1 discharging
    exit_flag,           \* what set_exit_flag() was last given, 0 when never called
    last                 \* what the most recent entry point did

vars == <<pc, sch_delay_off, sch_min_off, sch_scheduletype, battery_charge_low,
          ups_model, DISCHARGING_FLAG, exit_flag, last>>

-----------------------------------------------------------------------------
(* Program constants. *)

BATTERY_CHARGE_LOW_PERCENT == 20
SCHEDULE_DELAY_OFF == 30
SCHEDULE_MIN_OFF == 1
SCHEDULING_TYPE == 4

\* 0x15B0, the control/command register
CONTROL_ADDR == 5552
\* 0x1580, the shutdown-schedule block
SCHEDULE_ADDR == 5504
\* uint16_t tab_reg[64] of upsdrv_updateinfo
TAB_REG_LEN == 64
\* 0xFFFF
SENTINEL == 65535

-----------------------------------------------------------------------------
(* Bounds of the model. *)

\* The stay-off durations an operator enters are 0, 60, ... 60 * MaxMinutes
\* seconds, and 125 seconds.
MaxMinutes == 2

-----------------------------------------------------------------------------
(* C arithmetic. *)

\* Conversion of an int to uint16_t.
ToU16(x) == x % 65536

\* Conversion of an int to uint8_t.
ToU8(x) == x % 256

\* C's integer division and remainder truncate toward zero.
CDiv(a, b) == IF a >= 0 THEN a \div b ELSE -((-a) \div b)

CRem(a, b) == a - b * CDiv(a, b)

\* CHECK_BIT(var,pos) ((var) & (1<<(pos))), as a truth value, for var >= 0.
CHECK_BIT(var, pos) == (var \div (2 ^ pos)) % 2 = 1

\* The characters of the strings the driver parses: a string is a sequence
\* of one-character strings.
DigitVal(c) ==
    CASE c = "0" -> 0 [] c = "1" -> 1 [] c = "2" -> 2 [] c = "3" -> 3
      [] c = "4" -> 4 [] c = "5" -> 5 [] c = "6" -> 6 [] c = "7" -> 7
      [] c = "8" -> 8 [] c = "9" -> 9 [] OTHER -> -1

RECURSIVE ParseDigits(_, _, _)
ParseDigits(s, i, acc) ==
    IF i > Len(s) \/ DigitVal(s[i]) < 0
    THEN acc
    ELSE ParseDigits(s, i + 1, 10 * acc + DigitVal(s[i]))

RECURSIVE SkipSpace(_, _)
SkipSpace(s, i) == IF i <= Len(s) /\ s[i] = " " THEN SkipSpace(s, i + 1) ELSE i

\* atoi(3) and strtol(3) in base 10: leading blanks, an optional sign, then
\* digits up to the first character that is none; 0 when there is no digit.
atoi(s) ==
    LET i == SkipSpace(s, 1)
    IN  IF i <= Len(s) /\ s[i] = "-" THEN -ParseDigits(s, i + 1, 0)
        ELSE IF i <= Len(s) /\ s[i] = "+" THEN ParseDigits(s, i + 1, 0)
        ELSE ParseDigits(s, i, 0)

\* The decimal digits of n >= 0, as the operator or the configuration file
\* writes them.
DigitChar(d) == <<"0", "1", "2", "3", "4", "5", "6", "7", "8", "9">>[d + 1]

RECURSIVE Digits(_)
Digits(n) == IF n < 10 THEN <<DigitChar(n)>> ELSE Append(Digits(n \div 10), DigitChar(n % 10))

-----------------------------------------------------------------------------
(* The state after the static initialisers, before upsdrv_initups. *)

Init ==
    /\ pc = "initups"
    /\ sch_delay_off = SCHEDULE_DELAY_OFF
    /\ sch_min_off = SCHEDULE_MIN_OFF
    /\ sch_scheduletype = SCHEDULING_TYPE
    /\ battery_charge_low = BATTERY_CHARGE_LOW_PERCENT
    /\ ups_model = -1
    /\ DISCHARGING_FLAG = -1
    /\ exit_flag = 0
    /\ last = [op |-> "none"]

-----------------------------------------------------------------------------
(* get_config_vars, called by upsdrv_initups.  An override is <<>> when     *)
(* testvar() is false and <<s>> when the configuration gives the string s.  *)

get_config_vars(o) ==
    [battery_charge_low |->
        IF o.battery_charge_low_percent = <<>> THEN battery_charge_low
        ELSE atoi(o.battery_charge_low_percent[1]),
     sch_delay_off |->
        IF o.sch_delay_off_sec = <<>> THEN sch_delay_off
        ELSE ToU16(atoi(o.sch_delay_off_sec[1])),
     sch_min_off |->
        IF o.sch_min_off = <<>> THEN sch_min_off
        ELSE ToU16(atoi(o.sch_min_off[1])),
     sch_scheduletype |->
        IF o.scheduletype_1or4 = <<>> THEN sch_scheduletype
        ELSE ToU16(atoi(o.scheduletype_1or4[1]))]

\* upsdrv_initups: read the configuration, then open the transport (a fatal
\* error when it cannot be opened).
upsdrv_initups(Overrides) ==
    /\ pc = "initups"
    /\ \E o \in Overrides, connected \in BOOLEAN :
         LET c == get_config_vars(o)
         IN  /\ battery_charge_low' = c.battery_charge_low
             /\ sch_delay_off' = c.sch_delay_off
             /\ sch_min_off' = c.sch_min_off
             /\ sch_scheduletype' = c.sch_scheduletype
             /\ pc' = IF connected THEN "ready" ELSE "fatal"
             /\ last' = [op |-> "initups", connected |-> connected]
    /\ UNCHANGED <<ups_model, DISCHARGING_FLAG, exit_flag>>

-----------------------------------------------------------------------------
(* Register access primitives. *)

\* What modbus_write_registers can answer to a write of nb registers: -1, or
\* the number of registers the device acknowledged.
WriteResults(nb) == {-1} \cup (0 .. nb)

\* mwrs: one transport write of src[1..nb] at addr; r is the transport's
\* answer, which mwrs logs when it is -1 and returns as it is.
mwrs(addr, nb, src, r) ==
    [r |-> r,
     write |-> [addr |-> addr, nb |-> nb, val |-> SubSeq(src, 1, nb)],
     logged |-> (r = -1)]

\* What modbus_read_registers can answer to a read of nb registers: a failure,
\* which leaves the destination as it is, or nb registers of data.
ReadFailed == [r |-> -1]

ReadOk(data) == [r |-> Cardinality(DOMAIN data), data |-> data]

\* mrir as it would be without the loop that zeroes dest before the read.
mrir_without_zeroing(dest, nb, rd) ==
    [r |-> rd.r,
     dest |-> [i \in DOMAIN dest |->
                 IF i >= nb \/ rd.r = -1 THEN dest[i] ELSE rd.data[i]]]

\* mrir: zero dest[0..nb-1], then one transport read into dest; rd is the
\* transport's answer.  A register below nb holds the data read, or the zero
\* written before the read when the read failed; the others are untouched.
mrir(dest, nb, rd) ==
    [r |-> rd.r,
     dest |-> [i \in DOMAIN dest |->
                 IF i >= nb THEN dest[i] ELSE IF rd.r = -1 THEN 0 ELSE rd.data[i]]]

\* The first nb registers of a buffer.
Window(buf, nb) == [i \in 0 .. nb - 1 |-> buf[i]]

-----------------------------------------------------------------------------
(* instcmd. *)

\* The schedule as it would be with the low byte before the high byte.
EncodeSchedule_low_byte_first(d, m, t) ==
    <<ToU8(d % 256), ToU8((d - (d % 256)) \div 256),
      ToU8(m % 256), ToU8((m - (m % 256)) \div 256),
      t>>

\* The five registers of the shutdown schedule: each of the first four is a
\* uint8_t, the (x & 0xFF00) >> 8 and the x & 0x00FF of a uint16_t x.
EncodeSchedule(d, m, t) ==
    <<ToU8((d - (d % 256)) \div 256), ToU8(d % 256),
      ToU8((m - (m % 256)) \div 256), ToU8(m % 256),
      t>>

\* strcasecmp(cmdname, name) = 0, for the names the model feeds to instcmd.
Lower(name) ==
    CASE name = "LOAD.ON" -> "load.on"
      [] OTHER -> name

\* The code a single-register command writes to the control register.
SingleRegisterCode(cmd) ==
    CASE cmd = "load.off" -> 5
      [] cmd = "load.on" -> 6
      [] cmd = "beeper.enable" -> 7
      [] cmd = "beeper.mute" -> 8
      [] cmd = "test.panel.start" -> 13
      [] cmd = "beeper.disable" -> 14
      [] cmd = "test.battery.start" -> 16
      [] cmd = "shutdown.stayoff" -> 5

SingleRegisterCommands ==
    {"load.off", "load.on", "beeper.enable", "beeper.mute", "test.panel.start",
     "beeper.disable", "test.battery.start", "shutdown.stayoff"}

ScheduleCommands == {"load.off.delay", "shutdown.return"}

\* instcmd_block as it would be if shutdown.stayoff wrote the schedule, as
\* shutdown.return does.
instcmd_block_stayoff_schedule(cmd) ==
    IF cmd \in SingleRegisterCommands \ {"shutdown.stayoff"}
    THEN <<[addr |-> CONTROL_ADDR, nb |-> 1, val |-> <<SingleRegisterCode(cmd)>>]>>
    ELSE IF cmd \in ScheduleCommands \cup {"shutdown.stayoff"}
    THEN <<[addr |-> SCHEDULE_ADDR, nb |-> 5,
            val |-> EncodeSchedule(sch_delay_off, sch_min_off, sch_scheduletype)]>>
    ELSE <<>>

\* The block a command writes: where, how many registers, and their values.
\* <<>> for a name instcmd does not know.
instcmd_block(cmd) ==
    IF cmd \in SingleRegisterCommands
    THEN <<[addr |-> CONTROL_ADDR, nb |-> 1, val |-> <<SingleRegisterCode(cmd)>>]>>
    ELSE IF cmd \in ScheduleCommands
    THEN <<[addr |-> SCHEDULE_ADDR, nb |-> 5,
            val |-> EncodeSchedule(sch_delay_off, sch_min_off, sch_scheduletype)]>>
    ELSE <<>>

\* instcmd_status as it would be if only an error of the transport failed.
instcmd_status_error_only(cmd, r) ==
    IF r = -1 THEN "STAT_INSTCMD_FAILED" ELSE "STAT_INSTCMD_HANDLED"

\* What instcmd returns after its write: every branch tests r != 1.
instcmd_status(cmd, r) == IF r # 1 THEN "STAT_INSTCMD_FAILED" ELSE "STAT_INSTCMD_HANDLED"

\* instcmd(cmdname, extra): the branch of the first name that matches, or
\* STAT_INSTCMD_UNKNOWN with nothing written.
instcmd(CmdNames) ==
    /\ pc = "run"
    /\ \E cmdname \in CmdNames :
         LET cmd == Lower(cmdname)
             blk == instcmd_block(cmd)
         IN  IF blk = <<>>
             THEN last' = [op |-> "instcmd", cmdname |-> cmdname, cmd |-> cmd,
                           writes |-> <<>>, rs |-> <<>>,
                           result |-> "STAT_INSTCMD_UNKNOWN"]
             ELSE \E r \in WriteResults(blk[1].nb) :
                    LET w == mwrs(blk[1].addr, blk[1].nb, blk[1].val, r)
                    IN  last' = [op |-> "instcmd", cmdname |-> cmdname, cmd |-> cmd,
                                 writes |-> <<w.write>>, rs |-> <<w.r>>,
                                 result |-> instcmd_status(cmd, w.r)]
    /\ UNCHANGED <<pc, sch_delay_off, sch_min_off, sch_scheduletype,
                   battery_charge_low, ups_model, DISCHARGING_FLAG, exit_flag>>

-----------------------------------------------------------------------------
(* setvar. *)

\* What dstate_setinfo can answer: 1, or 0.
SinkResults == {0, 1}

\* setvar(varname, val): sink is what dstate_setinfo answers.  The result is
\* the value returned and the variables as setvar leaves them.
setvar_do(varname, val, sink) ==
    LET keep == [battery_charge_low |-> battery_charge_low,
                 sch_delay_off |-> sch_delay_off,
                 sch_min_off |-> sch_min_off]
    IN  IF varname = "battery.charge.low"
        THEN [result |-> "STAT_SET_HANDLED",
              vars |-> [keep EXCEPT !.battery_charge_low = atoi(val)]]
        ELSE IF varname = "ups.timer.shutdown"
        THEN [result |-> "STAT_SET_HANDLED",
              vars |-> [keep EXCEPT !.sch_delay_off = ToU16(atoi(val))]]
        ELSE IF varname = "ups.delay.start"
        THEN IF CRem(atoi(val), 60) = 0
             THEN [result |-> IF sink # 1 THEN "STAT_SET_FAILED" ELSE "STAT_SET_HANDLED",
                   vars |-> [keep EXCEPT !.sch_min_off = ToU16(CDiv(atoi(val), 60))]]
             ELSE [result |-> "STAT_SET_FAILED", vars |-> keep]
        ELSE [result |-> "STAT_SET_UNKNOWN", vars |-> keep]

setvar(Requests) ==
    /\ pc = "run"
    /\ \E rq \in Requests, sink \in SinkResults :
         LET s == setvar_do(rq[1], rq[2], sink)
         IN  /\ battery_charge_low' = s.vars.battery_charge_low
             /\ sch_delay_off' = s.vars.sch_delay_off
             /\ sch_min_off' = s.vars.sch_min_off
             /\ last' = [op |-> "setvar", varname |-> rq[1], val |-> rq[2],
                          sink |-> sink, result |-> s.result,
                          before |-> [battery_charge_low |-> battery_charge_low,
                                      sch_delay_off |-> sch_delay_off,
                                      sch_min_off |-> sch_min_off]]
    /\ UNCHANGED <<pc, sch_scheduletype, ups_model, DISCHARGING_FLAG, exit_flag>>

-----------------------------------------------------------------------------
(* upsdrv_shutdown. *)

\* What upsdrv_shutdown does once mwrs has answered r: log an error and
\* return, or set_exit_flag(-2).
shutdown_outcome(r) ==
    IF r = -1 THEN [error |-> TRUE, exit_flag |-> exit_flag]
    ELSE [error |-> FALSE, exit_flag |-> -2]

\* upsdrv_shutdown: the surrounding process calls it once the transport is
\* open; a process whose exit flag is set leaves its main loop.
upsdrv_shutdown ==
    /\ pc \in {"ready", "run"}
    /\ \E r \in WriteResults(5) :
         LET w == mwrs(SCHEDULE_ADDR, 5,
                       EncodeSchedule(sch_delay_off, sch_min_off, sch_scheduletype), r)
             o == shutdown_outcome(w.r)
         IN  /\ exit_flag' = o.exit_flag
             /\ pc' = IF o.exit_flag = 0 THEN pc ELSE "exit"
             /\ last' = [op |-> "shutdown", writes |-> <<w.write>>, rs |-> <<w.r>>,
                          error |-> o.error, exit_flag |-> o.exit_flag]
    /\ UNCHANGED <<sch_delay_off, sch_min_off, sch_scheduletype, battery_charge_low,
                   ups_model, DISCHARGING_FLAG>>

-----------------------------------------------------------------------------
(* upsdrv_initinfo. *)

\* The switch on the UPS code: the model published and ups_model.
identify(code) ==
    CASE code = 30  -> [ups_model |-> 30,  label |-> [text |-> "ITYS", id |-> <<>>]]
      [] code = 130 -> [ups_model |-> 130, label |-> [text |-> "DIGYS", id |-> <<>>]]
      [] code = 515 -> [ups_model |-> 515, label |-> [text |-> "DELPHYS MX", id |-> <<>>]]
      [] code = 516 -> [ups_model |-> 516,
                        label |-> [text |-> "DELPHYS MX elite", id |-> <<>>]]
      [] OTHER      -> [ups_model |-> 130,
                        label |-> [text |-> "Unknown Socomec JBUS. Send id %u and specify the model",
                                   id |-> <<code>>]]

\* The 12 identity registers of a device whose code is code.
IdentityData(code) == [i \in 0 .. 11 |-> IF i = 0 THEN code ELSE IF i = 1 THEN 10 ELSE 0]

\* upsdrv_initinfo: publish the parameters, read the identity block (a fatal
\* error when the read fails), publish the model, register the handlers.
upsdrv_initinfo(Codes) ==
    /\ pc = "ready"
    /\ \E rd \in {ReadFailed} \cup {ReadOk(IdentityData(c)) : c \in Codes}, g \in {0, SENTINEL} :
         LET m == mrir([i \in 0 .. 11 |-> g], 12, rd)
             tab_reg == m.dest
             id == identify(tab_reg[0])
         IN  IF m.r = -1
             THEN /\ pc' = "fatal"
                  /\ ups_model' = ups_model
                  /\ last' = [op |-> "initinfo", r |-> [identity |-> m.r],
                               win |-> [identity |-> Window(tab_reg, 12)]]
             ELSE /\ pc' = "run"
                  /\ ups_model' = id.ups_model
                  /\ last' = [op |-> "initinfo", r |-> [identity |-> m.r],
                               win |-> [identity |-> Window(tab_reg, 12)],
                               model |-> id.label,
                               power |-> IF tab_reg[1] # 0 THEN <<tab_reg[1] * 100>> ELSE <<>>,
                               timer_shutdown |-> sch_delay_off,
                               delay_start |-> sch_min_off * 60,
                               charge_low |-> battery_charge_low]
    /\ UNCHANGED <<sch_delay_off, sch_min_off, sch_scheduletype, battery_charge_low,
                   DISCHARGING_FLAG, exit_flag>>

-----------------------------------------------------------------------------
(* upsdrv_updateinfo. *)

\* What the status decode has done so far: the status words set since
\* status_init(), DISCHARGING_FLAG, and the rules that fired.
Fire(s, rule, word) ==
    [s EXCEPT !.status = @ \cup {word}, !.rules = @ \cup {rule}]

\* Input supply present and not on battery: OL, not discharging.
rule1(reg0, s) ==
    IF CHECK_BIT(reg0, 0) /\ ~CHECK_BIT(reg0, 5)
    THEN [Fire(s, "rule1", "OL") EXCEPT !.flag = 0]
    ELSE s

\* rule2 as it would be if OFF replaced the status set so far.
rule2_replacing_status(reg0, s) ==
    IF CHECK_BIT(reg0, 1) THEN s
    ELSE [s EXCEPT !.status = {"OFF"}, !.rules = @ \cup {"rule2"}]

\* rule2 as it would be if OFF also set DISCHARGING_FLAG back to unknown.
rule2_forgetting_flag(reg0, s) ==
    IF CHECK_BIT(reg0, 1) THEN s ELSE [Fire(s, "rule2", "OFF") EXCEPT !.flag = -1]

\* Inverter not on: OFF.
rule2(reg0, s) == IF CHECK_BIT(reg0, 1) THEN s ELSE Fire(s, "rule2", "OFF")

\* Battery test in progress and load on battery: OL.
rule3(reg0, s) ==
    IF CHECK_BIT(reg0, 10) /\ CHECK_BIT(reg0, 5) THEN Fire(s, "rule3", "OL") ELSE s

\* rule4 as it would be without the test of the battery-test bit.
rule4_during_battery_test(reg0, s) ==
    IF CHECK_BIT(reg0, 5)
    THEN [Fire(s, "rule4", "OB") EXCEPT !.flag = 1]
    ELSE s

\* No battery test in progress and load on battery: OB, discharging.
rule4(reg0, s) ==
    IF ~CHECK_BIT(reg0, 10) /\ CHECK_BIT(reg0, 5)
    THEN [Fire(s, "rule4", "OB") EXCEPT !.flag = 1]
    ELSE s

\* rule5 as it would be without the test of battery_charge_low.
rule5_whatever_threshold(reg0, s) ==
    IF CHECK_BIT(reg0, 15) THEN Fire(s, "rule5", "LB") ELSE s

\* Battery near end of back-up, with battery_charge_low at -1: LB.
rule5(reg0, s) ==
    IF CHECK_BIT(reg0, 15) /\ battery_charge_low = -1 THEN Fire(s, "rule5", "LB") ELSE s

\* The status decode of tab_reg[0] of the status window, in the order of the
\* code.
decode_status(reg0, s) == rule5(reg0, rule4(reg0, rule3(reg0, rule2(reg0, rule1(reg0, s)))))

\* low_battery as it would be without the test of DISCHARGING_FLAG.
low_battery_without_flag(charge, s) ==
    IF charge < battery_charge_low THEN Fire(s, "threshold", "LB") ELSE s

\* Discharging and battery charge below battery_charge_low: LB.  tab_reg[4]
\* is promoted to int, so the comparison is a signed one.
low_battery(charge, s) ==
    IF s.flag = 1 /\ charge < battery_charge_low THEN Fire(s, "threshold", "LB") ELSE s

\* The bits of the alarm window that set an alarm: register, bit, text.
AlarmTable ==
    {<<0, 0, "General Alarm present.">>,
     <<0, 1, "Battery failure.">>,
     <<0, 2, "Overload fault.">>,
     <<0, 4, "Control failure (com, internal supply...)">>,
     <<0, 5, "Rectifier input supply out of tolerance.">>,
     <<0, 6, "Bypass input supply out of tolerance.">>,
     <<0, 7, "Over temperature fault.">>,
     <<0, 8, "Maintenance bypass closed.">>,
     <<0, 10, "Battery charger fault.">>,
     <<1, 15, "Imminent STOP.">>,
     <<2, 12, "Servicing alarm.">>,
     <<3, 0, "Maintenance bypass.">>,
     <<3, 1, "Battery discharged.">>,
     <<3, 4, "Critical Rectifier fault.">>,
     <<3, 6, "Critical Inverter fault.">>,
     <<3, 11, "Battery circuit open.">>,
     <<3, 14, "Bypass critical alarm.">>}

\* The alarms set between alarm_init() and alarm_commit().
decode_alarms(tab_reg) == {a[3] : a \in {x \in AlarmTable : CHECK_BIT(tab_reg[x[1]], x[2])}}

\* status_length as it would be if only the DIGYS had a window of 6 registers.
status_length_6_for_digys_only == IF ups_model = 130 THEN 6 ELSE 4

\* The length of the status window: 4 registers for the ITYS, 6 otherwise.
status_length == IF ups_model = 30 THEN 4 ELSE 6

\* What the device holds in each window.
ConfigData(v0) == [i \in 0 .. 31 |-> IF i = 0 THEN v0 ELSE 230]

TimeData == [i \in 0 .. 3 |-> 4660]

StatusData(reg0, nb) == [i \in 0 .. nb - 1 |-> IF i = 0 THEN reg0 ELSE 1]

MeasurementData(charge) ==
    [i \in 0 .. 47 |-> IF i = 4 THEN charge ELSE IF i \in {1, 2} THEN SENTINEL ELSE 50]

\* The answers of the transport to a read: a failure, or one of the windows.
Reads(windows) == {ReadFailed} \cup {ReadOk(w) : w \in windows}

\* The answers of the transport to the reads that follow the configuration
\* read.  The status read is <<>> when it fails and <<w>> when the device
\* answers with w in register 0 of the status window.
Answers(TimeReads, StatusRegs, AlarmReads, MeasurementReads) ==
    {[time |-> t, status |-> s, alarm |-> a, measurement |-> m] :
        t \in TimeReads, s \in StatusRegs, a \in AlarmReads, m \in MeasurementReads}

\* tab_reg when the cycle starts holds whatever the stack held; no read of
\* the cycle reaches a register that no mrir of the cycle has written.
StackGarbage == [i \in 0 .. TAB_REG_LEN - 1 |-> SENTINEL]

\* The end of the cycle, with what the five reads left in tab_reg and st,
\* the status decode: the measurements, the low-battery test, then
\* alarm_commit(), status_commit() and dstate_dataok().
poll_commit(cfg, tim, sts, st, alm, mes) ==
    LET lb == low_battery(mes.dest[4], st)
    IN  [op |-> "poll", outcome |-> "ok", flagBefore |-> DISCHARGING_FLAG,
         r |-> [config |-> cfg.r, time |-> tim.r, status |-> sts.r,
                alarm |-> alm.r, measurement |-> mes.r],
         win |-> [config |-> Window(cfg.dest, 32),
                  time |-> Window(tim.dest, 4),
                  status |-> Window(sts.dest, status_length),
                  alarm |-> Window(alm.dest, 4),
                  measurement |-> Window(mes.dest, 48)],
         flag |-> lb.flag,
         rules |-> lb.rules,
         status |-> lb.status,
         alarms |-> decode_alarms(alm.dest),
         battery_charge |-> IF mes.dest[4] # SENTINEL THEN <<mes.dest[4]>> ELSE <<>>]

\* The alarm decode, then the read of the measurement window.
poll_measurements(cfg, tim, sts, st, alm, a) ==
    poll_commit(cfg, tim, sts, st, alm, mrir(alm.dest, 48, a.measurement))

\* The status decode, then the read of the alarm window.
poll_alarms(cfg, tim, sts, a) ==
    poll_measurements(cfg, tim, sts,
                      decode_status(sts.dest[0],
                                    [status |-> {}, flag |-> DISCHARGING_FLAG, rules |-> {}]),
                      mrir(sts.dest, 4, a.alarm), a)

\* The read of the status window, of 4 or 6 registers.
poll_status(cfg, tim, a) ==
    poll_alarms(cfg, tim,
                mrir(tim.dest, status_length,
                     IF a.status = <<>> THEN ReadFailed
                     ELSE ReadOk(StatusData(a.status[1], status_length))),
                a)

\* The cycle after a configuration read that left cfg in tab_reg, from the
\* read of the time and date on: every read goes into the same tab_reg.
poll_cycle(cfg, a) == poll_status(cfg, mrir(cfg.dest, 4, a.time), a)

\* no_data as it would be without the test of tab_reg[0].
no_data_only_on_failed_read(cfg) == cfg.r = -1

\* The test after the configuration read: r == -1 || !tab_reg[0].
no_data(cfg) == cfg.r = -1 \/ cfg.dest[0] = 0

\* upsdrv_updateinfo: one poll cycle.  Either the configuration read gives
\* no data, and the cycle ends with dstate_datastale() before any other read;
\* or the four other reads follow and the cycle ends with alarm_commit(),
\* status_commit() and dstate_dataok().
upsdrv_updateinfo(ConfigReads, PollAnswers) ==
    /\ pc = "run"
    /\ \E rdc \in ConfigReads :
         LET cfg == mrir(StackGarbage, 32, rdc)
         IN  \/ /\ no_data(cfg)
                /\ DISCHARGING_FLAG' = DISCHARGING_FLAG
                /\ last' = [op |-> "poll", outcome |-> "stale",
                             flagBefore |-> DISCHARGING_FLAG,
                             r |-> [config |-> cfg.r],
                             win |-> [config |-> Window(cfg.dest, 32)]]
             \/ /\ ~no_data(cfg)
                /\ \E a \in PollAnswers :
                     LET p == poll_cycle(cfg, a)
                     IN  /\ DISCHARGING_FLAG' = p.flag
                         /\ last' = p
    /\ UNCHANGED <<pc, sch_delay_off, sch_min_off, sch_scheduletype, battery_charge_low,
                   ups_model, exit_flag>>

-----------------------------------------------------------------------------
(* Spec: the driver with every command and every parameter update, on a    *)
(* device that answers a poll with one of three status words: 3 (on line), *)
(* 34 (on battery) and 1058 (on battery for a battery test).               *)

NoOverride ==
    [battery_charge_low_percent |-> <<>>, sch_delay_off_sec |-> <<>>,
     sch_min_off |-> <<>>, scheduletype_1or4 |-> <<>>]

\* The configurations: none, or any of a shutdown delay of 5 seconds, a
\* standby of 9999 minutes and a schedule type of 1.
ScheduleOverrides ==
    {[NoOverride EXCEPT !.sch_delay_off_sec = d, !.sch_min_off = m, !.scheduletype_1or4 = t] :
        d \in {<<>>, <<Digits(5)>>}, m \in {<<>>, <<Digits(9999)>>}, t \in {<<>>, <<Digits(1)>>}}

CommandNames ==
    {"load.off", "load.on", "beeper.enable", "beeper.mute", "test.panel.start",
     "beeper.disable", "test.battery.start", "load.off.delay", "shutdown.return",
     "shutdown.stayoff", "LOAD.ON", "shutdown.reboot"}

\* The parameter updates: a shutdown delay of 600 seconds, stay-off durations
\* of 0, 60, ... seconds and of 125 seconds, and a name setvar does not know.
ScheduleRequests ==
    {<<"ups.timer.shutdown", Digits(600)>>, <<"ups.delay.start", Digits(125)>>,
     <<"ups.realpower", Digits(60)>>}
    \cup {<<"ups.delay.start", Digits(60 * k)>> : k \in 0 .. MaxMinutes}

ZeroWindow == [i \in 0 .. 3 |-> 0]

InitUps == upsdrv_initups(ScheduleOverrides)

InitInfo == upsdrv_initinfo({30})

UpdateInfo ==
    upsdrv_updateinfo(Reads({ConfigData(230)}),
                      Answers({ReadOk(TimeData)}, {<<>>, <<3>>, <<34>>, <<1058>>},
                              {ReadOk(ZeroWindow)}, {ReadOk(MeasurementData(15))}))

InstCmd == instcmd(CommandNames)

SetVar == setvar(ScheduleRequests)

Shutdown == upsdrv_shutdown

Next == InitUps \/ InitInfo \/ UpdateInfo \/ InstCmd \/ SetVar \/ Shutdown

Spec == Init /\ [][Next]_vars

-----------------------------------------------------------------------------
(* SpecPoll: the poll cycle on a device that answers with every status     *)
(* word, with the schedule left at its defaults.                           *)

\* The bits of status register 0 that the decode acts on: 0 (input supply),
\* 1 (inverter on), 5 (on battery), 10 (battery test) and 15 (near end of
\* back-up).
StatusBits == {0, 1, 5, 10, 15}

RECURSIVE SumOfBits(_)
SumOfBits(B) == IF B = {} THEN 0 ELSE LET b == CHOOSE x \in B : TRUE IN 2 ^ b + SumOfBits(B \ {b})

\* Every value of those five bits with the other bits clear, and every value
\* of bits 0, 5 and 10 with all the other bits set.
StatusWords ==
    {SumOfBits(B) : B \in SUBSET StatusBits}
    \cup {SumOfBits(B \cup ((0 .. 15) \ {0, 5, 10})) : B \in SUBSET {0, 5, 10}}

\* Alarm windows: no alarm; general alarm, battery failure and imminent stop;
\* every bit of every register.
AlarmWindows ==
    {ZeroWindow,
     [i \in 0 .. 3 |-> IF i = 0 THEN 3 ELSE IF i = 1 THEN 32768 ELSE 0],
     [i \in 0 .. 3 |-> SENTINEL]}

\* The configurations: none, or the low-battery threshold at -1.
ThresholdOverrides ==
    {NoOverride, [NoOverride EXCEPT !.battery_charge_low_percent = <<<<"-", "1">>>>]}

\* Every status word with no alarm and a battery charge of 15 percent; and
\* every outcome of the four reads for the status words 3 (on line) and 34
\* (on battery), with battery charges of 15 and 20 percent.
PollAnswers ==
    Answers({ReadOk(TimeData)}, {<<w>> : w \in StatusWords},
            {ReadOk(ZeroWindow)}, {ReadOk(MeasurementData(15))})
    \cup Answers(Reads({TimeData}), {<<>>, <<3>>, <<34>>},
                 Reads(AlarmWindows), Reads({MeasurementData(15), MeasurementData(20)}))

PollInitUps == upsdrv_initups(ThresholdOverrides)

PollInitInfo == upsdrv_initinfo({30, 9999})

PollUpdateInfo == upsdrv_updateinfo(Reads({ConfigData(0), ConfigData(230)}), PollAnswers)

\* The parameter update: a low-battery threshold of 50 percent.
PollSetVar == setvar({<<"battery.charge.low", Digits(50)>>})

NextPoll == PollInitUps \/ PollInitInfo \/ PollUpdateInfo \/ PollSetVar

SpecPoll == Init /\ [][NextPoll]_vars

-----------------------------------------------------------------------------
(* SpecIdentify: the identification of every known model and of two        *)
(* unknown ones, followed by poll cycles.                                  *)

\* The codes of the four known models, a code next to a known one, and a
\* code far from all of them.
IdentityCodes == {30, 130, 515, 516, 31, 9999}

\* Status words: every value of bits 0, 1 and 5.
IdentifyStatusWords == {SumOfBits(B) : B \in SUBSET {0, 1, 5}}

IdentifyInitUps == upsdrv_initups({NoOverride})

IdentifyInitInfo == upsdrv_initinfo(IdentityCodes)

IdentifyUpdateInfo ==
    upsdrv_updateinfo(Reads({ConfigData(230)}),
                      Answers({ReadOk(TimeData)},
                              {<<>>} \cup {<<w>> : w \in IdentifyStatusWords},
                              Reads({ZeroWindow}), {ReadOk(MeasurementData(15))}))

NextIdentify == IdentifyInitUps \/ IdentifyInitInfo \/ IdentifyUpdateInfo

SpecIdentify == Init /\ [][NextIdentify]_vars

-----------------------------------------------------------------------------
(* SpecLowBattery: the two low-battery tests of the poll cycle, with the   *)
(* threshold at its default, at -1 and at 50 percent.  The surrounding     *)
(* process calls upsdrv_initups, then upsdrv_initinfo, then                *)
(* upsdrv_updateinfo on a timer for as long as it runs: each is weakly     *)
(* fair.                                                                   *)

\* Status words: every value of bits 0 (input supply), 5 (on battery) and 15
\* (near end of back-up).
LowBatteryStatusWords == {SumOfBits(B) : B \in SUBSET {0, 5, 15}}

\* The parameter updates: a low-battery threshold of -1, and of 50 percent.
ThresholdRequests ==
    {<<"battery.charge.low", <<"-", "1">>>>, <<"battery.charge.low", Digits(50)>>}

LowBatteryInitUps == upsdrv_initups(ThresholdOverrides)

LowBatteryInitInfo == upsdrv_initinfo({30})

\* The measurement read fails, which leaves a battery charge of 0, or gives
\* a battery charge of 15 or of 50 percent.
LowBatteryUpdateInfo ==
    upsdrv_updateinfo(Reads({ConfigData(230)}),
                      Answers({ReadOk(TimeData)},
                              {<<w>> : w \in LowBatteryStatusWords},
                              {ReadOk(ZeroWindow)},
                              Reads({MeasurementData(15), MeasurementData(50)})))

LowBatterySetVar == setvar(ThresholdRequests)

NextLowBattery ==
    LowBatteryInitUps \/ LowBatteryInitInfo \/ LowBatteryUpdateInfo \/ LowBatterySetVar

SpecLowBattery ==
    /\ Init
    /\ [][NextLowBattery]_vars
    /\ WF_vars(LowBatteryInitUps)
    /\ WF_vars(LowBatteryInitInfo)
    /\ WF_vars(LowBatteryUpdateInfo)

-----------------------------------------------------------------------------
(* Properties of the commands and of the parameter updates (Spec).         *)

\* The last entry point wrote one block, of nb registers at addr.
WroteOneBlock(addr, nb) ==
    /\ Len(last.writes) = 1
    /\ last.writes[1].addr = addr
    /\ last.writes[1].nb = nb
    /\ Len(last.writes[1].val) = nb

\* The schedule block of delay d, standby m and type t, as the device
\* expects it: each 16-bit value as its high byte then its low byte.
ScheduleBlock(d, m, t) == <<d \div 256, d % 256, m \div 256, m % 256, t>>

\* C1: load.off.delay and shutdown.return write 5 registers to the
\* shutdown-schedule block, and return "handled" exactly when the transport
\* acknowledges 5 registers; any other answer of the transport gives "failed".
C1_HandledIffFiveAcknowledged ==
    (last.op = "instcmd" /\ last.cmd \in {"load.off.delay", "shutdown.return"}) =>
        /\ WroteOneBlock(SCHEDULE_ADDR, 5)
        /\ (last.result = "STAT_INSTCMD_HANDLED") <=> (last.rs[1] = 5)
        /\ (last.rs[1] # 5) => (last.result = "STAT_INSTCMD_FAILED")

\* C2: upsdrv_shutdown signals a successful shutdown (set_exit_flag(-2)) only
\* when all 5 registers of the schedule were acknowledged; for every other
\* answer of the transport, a partial write included, it reports an error
\* and does not signal success.
C2_ExitFlagOnlyOnFullWrite ==
    (last.op = "shutdown") =>
        /\ WroteOneBlock(SCHEDULE_ADDR, 5)
        /\ (exit_flag = -2) <=> (last.rs[1] = 5)
        /\ (last.rs[1] # 5) => (last.error /\ exit_flag = 0)

\* The last entry point was load.off.delay, shutdown.return or
\* upsdrv_shutdown.
WroteSchedule ==
    \/ last.op = "instcmd" /\ last.cmd \in {"load.off.delay", "shutdown.return"}
    \/ last.op = "shutdown"

\* C3: the block that load.off.delay, shutdown.return and upsdrv_shutdown
\* write for the stored schedule (d, m, t) is [d div 256, d mod 256,
\* m div 256, m mod 256, t]: the first four registers are bytes, the first
\* two give d and the next two give m; the defaults 30, 1, 4 give
\* [0, 30, 0, 1, 4].
C3_ScheduleBlockEncoding ==
    WroteSchedule =>
        LET val == last.writes[1].val
        IN  /\ Len(last.writes) = 1
            /\ val = ScheduleBlock(sch_delay_off, sch_min_off, sch_scheduletype)
            /\ \A i \in 1 .. 4 : val[i] \in 0 .. 255
            /\ val[1] * 256 + val[2] = sch_delay_off
            /\ val[3] * 256 + val[4] = sch_min_off
            /\ (sch_delay_off = 30 /\ sch_min_off = 1 /\ sch_scheduletype = 4)
                  => val = <<0, 30, 0, 1, 4>>

\* C3, witness: a schedule whose delay and standby both need two bytes, 600
\* seconds and 9999 minutes, was written by upsdrv_shutdown.
C3_Witness ==
    /\ last.op = "shutdown"
    /\ sch_delay_off = 600
    /\ sch_min_off = 9999
    /\ last.writes[1].val = <<2, 88, 39, 15, sch_scheduletype>>

\* C4, as claimed: every shutdown-class command, shutdown.stayoff included,
\* writes the schedule as 5 registers at the shutdown-schedule address.
C4_EveryShutdownCommandWritesSchedule ==
    (last.op = "instcmd"
       /\ last.cmd \in {"load.off.delay", "shutdown.return", "shutdown.stayoff"}) =>
        /\ WroteOneBlock(SCHEDULE_ADDR, 5)
        /\ last.writes[1].val = ScheduleBlock(sch_delay_off, sch_min_off, sch_scheduletype)

\* C4, as amended: load.off.delay and shutdown.return write the schedule as
\* 5 registers at the shutdown-schedule address; shutdown.stayoff writes the
\* single code 0x05 to the control/command register, as load.off does.
C4_StayoffWritesControlRegister ==
    /\ (last.op = "instcmd" /\ last.cmd \in {"load.off.delay", "shutdown.return"}) =>
          /\ WroteOneBlock(SCHEDULE_ADDR, 5)
          /\ last.writes[1].val = ScheduleBlock(sch_delay_off, sch_min_off, sch_scheduletype)
    /\ (last.op = "instcmd" /\ last.cmd = "shutdown.stayoff") =>
          /\ WroteOneBlock(CONTROL_ADDR, 1)
          /\ last.writes[1].val = <<5>>

\* C4, witness: shutdown.stayoff was acknowledged and returned "handled".
C4_Witness ==
    /\ last.op = "instcmd"
    /\ last.cmd = "shutdown.stayoff"
    /\ last.writes = <<[addr |-> CONTROL_ADDR, nb |-> 1, val |-> <<5>>]>>
    /\ last.result = "STAT_INSTCMD_HANDLED"

\* C5: an update of the stay-off duration to v seconds is accepted only if
\* 60 divides v, and then stores v / 60 minutes; whenever it is reported as
\* failed, whatever the sink answered, the stored minutes are those of before
\* the call.
C5_RejectedUpdateChangesNothing ==
    (last.op = "setvar" /\ last.varname = "ups.delay.start") =>
        LET v == atoi(last.val)
        IN  /\ (last.result = "STAT_SET_HANDLED") =>
                  (v % 60 = 0 /\ sch_min_off = v \div 60)
            /\ (last.result # "STAT_SET_HANDLED") =>
                  sch_min_off = last.before.sch_min_off

\* C6: in every state of a driver that has read its configuration and
\* opened the transport, whatever overrides, updates and commands came
\* before, the stored schedule is valid: the delay is in 20..600, the
\* standby in 1..9999 and the type one of 0, 1, 4.
C6_ScheduleAlwaysValid ==
    (pc \in {"ready", "run"}) =>
        /\ sch_delay_off \in 20 .. 600
        /\ sch_min_off \in 1 .. 9999
        /\ sch_scheduletype \in {0, 1, 4}

-----------------------------------------------------------------------------
(* Properties of the poll cycle (SpecPoll).                                *)

\* Bit b of the register value w is set.
HasBit(w, b) == (w \div (2 ^ b)) % 2 = 1

\* The last entry point was a poll cycle that reached its commit.
Polled == last.op = "poll" /\ last.outcome = "ok"

\* A window is all zero.
AllZero(win) == \A i \in DOMAIN win : win[i] = 0

\* C7: with bits 5 (on battery) and 10 (battery test) of status register 0
\* both set, the cycle publishes OL and not OB and leaves the discharging
\* flag as it was; with bit 5 set and bit 10 clear it publishes OB and the
\* flag becomes discharging; OB is published in no other case.
C7_BatteryTestIsNotOnBattery ==
    Polled =>
        LET w == last.win.status[0]
        IN  /\ (HasBit(w, 5) /\ HasBit(w, 10)) =>
                  /\ "OL" \in last.status
                  /\ "OB" \notin last.status
                  /\ DISCHARGING_FLAG = last.flagBefore
            /\ (HasBit(w, 5) /\ ~HasBit(w, 10)) =>
                  /\ "OB" \in last.status
                  /\ DISCHARGING_FLAG = 1
            /\ ("OB" \in last.status) => (HasBit(w, 5) /\ ~HasBit(w, 10))

\* C7, witness: a cycle with bits 5 and 10 set, after a cycle that left the
\* flag at not discharging, published OL.
C7_Witness ==
    /\ Polled
    /\ HasBit(last.win.status[0], 5) /\ HasBit(last.win.status[0], 10)
    /\ last.flagBefore = 0
    /\ "OL" \in last.status

\* C8: with bit 0 (input supply present) set and bit 5 (on battery) clear,
\* whatever the other bits, the cycle publishes OL and the flag becomes not
\* discharging; if bit 1 (inverter on) is clear as well, OFF is published
\* together with OL.
C8_OnLineWithInputSupply ==
    Polled =>
        LET w == last.win.status[0]
        IN  (HasBit(w, 0) /\ ~HasBit(w, 5)) =>
                /\ "OL" \in last.status
                /\ DISCHARGING_FLAG = 0
                /\ ~HasBit(w, 1) => {"OL", "OFF"} \subseteq last.status

\* C8, witness: a cycle with bit 0 set and bits 1 and 5 clear, after a cycle
\* that left the flag at discharging, published OL and OFF.
C8_Witness ==
    /\ Polled
    /\ HasBit(last.win.status[0], 0)
    /\ ~HasBit(last.win.status[0], 1) /\ ~HasBit(last.win.status[0], 5)
    /\ last.flagBefore = 1
    /\ last.status = {"OL", "OFF"}

\* C9: in a cycle that reaches the measurement decode, if the flag is
\* discharging and the battery charge (register 4 of the measurement window)
\* is below the low-battery threshold, LB is in the status published; if the
\* flag is not discharging, the threshold test asserts nothing.
C9_LowBatteryBelowThreshold ==
    Polled =>
        LET charge == last.win.measurement[4]
        IN  /\ (DISCHARGING_FLAG = 1 /\ charge < battery_charge_low) =>
                  ("LB" \in last.status /\ "threshold" \in last.rules)
            /\ (DISCHARGING_FLAG # 1) =>
                  ("threshold" \notin last.rules
                   /\ ("LB" \in last.status => "rule5" \in last.rules))

\* C9, witness: discharging, a charge of 15 and a threshold of 20.
C9_Witness ==
    /\ Polled
    /\ DISCHARGING_FLAG = 1
    /\ last.win.measurement[4] = 15
    /\ battery_charge_low = 20
    /\ "LB" \in last.status

\* C10: a failed read leaves its window all zero over the length asked for;
\* and a status window and an alarm window that are all zero give no alarm,
\* and neither OL from the battery test (rule 3), nor OB or a change of the
\* flag (rule 4), nor LB from bit 15 (rule 5).
C10_FailedReadDecodesToNothing ==
    /\ (last.op \in {"poll", "initinfo"}) =>
          \A k \in DOMAIN last.r :
              (last.r[k] = -1) => AllZero(last.win[k])
    /\ (Polled /\ AllZero(last.win.status) /\ AllZero(last.win.alarm)) =>
          /\ last.alarms = {}
          /\ last.rules \cap {"rule3", "rule4", "rule5"} = {}
          /\ "OB" \notin last.status
          /\ "OL" \notin last.status
          /\ DISCHARGING_FLAG = last.flagBefore

\* C10, witness: the status read and the alarm read of a cycle both failed,
\* after a time and date read that left other data in the same registers.
C10_Witness ==
    /\ Polled
    /\ last.r.status = -1 /\ last.r.alarm = -1
    /\ last.r.time # -1 /\ ~AllZero(last.win.time)
    /\ AllZero(last.win.status) /\ AllZero(last.win.alarm)
    /\ last.alarms = {}

-----------------------------------------------------------------------------
(* Properties of the reads of a poll cycle (SpecPoll).                     *)

\* Some read of the last poll cycle failed.
SomeReadFailed == \E k \in DOMAIN last.r : last.r[k] = -1

\* C11, as claimed: whatever reads of a poll cycle fail, the cycle goes on
\* with zero-filled data, reaches alarm_commit() and status_commit() and
\* marks the data as ok.
C11_NoFailedReadAbortsTheCycle ==
    (last.op = "poll" /\ SomeReadFailed) =>
        /\ Polled
        /\ \A k \in DOMAIN last.r : (last.r[k] = -1) => AllZero(last.win[k])

\* C11, as amended: a poll cycle ends stale, with no read after the
\* configuration read and nothing committed, exactly when the configuration
\* read failed or left 0 in its register 0; otherwise it makes all five reads
\* and, whichever of the time, status, alarm and measurement reads fail, goes
\* on with zero-filled data to the commit and marks the data as ok.  No poll
\* cycle is fatal: only upsdrv_initups and a failed identity read are.
C11_OnlyConfigurationReadEndsTheCycle ==
    /\ (last.op = "poll") =>
          /\ pc = "run"
          /\ (last.outcome = "stale") <=>
                (last.r.config = -1 \/ last.win.config[0] = 0)
          /\ (last.outcome = "stale") => DOMAIN last.r = {"config"}
          /\ (last.outcome # "stale") =>
                /\ Polled
                /\ DOMAIN last.r = {"config", "time", "status", "alarm", "measurement"}
                /\ \A k \in DOMAIN last.r : (last.r[k] = -1) => AllZero(last.win[k])
    /\ (last.op = "initinfo") => ((pc = "fatal") <=> (last.r.identity = -1))
    /\ (pc = "fatal") => last.op \in {"initups", "initinfo"}

\* C11, witness: the time, status, alarm and measurement reads of a cycle all
\* failed, and the cycle reached its commit.
C11_Witness ==
    /\ Polled
    /\ last.r.config # -1
    /\ last.r.time = -1 /\ last.r.status = -1
    /\ last.r.alarm = -1 /\ last.r.measurement = -1
    /\ AllZero(last.win.measurement)

-----------------------------------------------------------------------------
(* Properties of the model identification (SpecIdentify).                  *)

\* The label of a known model.
Known(text) == [text |-> text, id |-> <<>>]

\* What upsdrv_initinfo published for the code in register 0 of the identity
\* block.
IdentifiedExactly ==
    (last.op = "initinfo" /\ last.r.identity # -1) =>
        LET code == last.win.identity[0]
        IN  /\ pc = "run"
            /\ (code = 30) => last.model = Known("ITYS")
            /\ (code = 130) => last.model = Known("DIGYS")
            /\ (code = 515) => last.model = Known("DELPHYS MX")
            /\ (code = 516) => last.model = Known("DELPHYS MX elite")
            /\ (code \notin {30, 130, 515, 516}) =>
                  /\ last.model.id = <<code>>
                  /\ last.model.text \notin {"ITYS", "DIGYS", "DELPHYS MX", "DELPHYS MX elite"}
            /\ (ups_model = 30) <=> (code = 30)

\* The status window of a poll cycle that reached its commit has 4 registers
\* for the model identified from code 30 and 6 registers for any other.
StatusWindowByModel ==
    Polled =>
        /\ (DOMAIN last.win.status = 0 .. 3) <=> (ups_model = 30)
        /\ (ups_model # 30) => (DOMAIN last.win.status = 0 .. 5)

\* C12: register 0 of the identity block is matched exactly: 30 is the ITYS,
\* 130 the DIGYS, 515 the DELPHYS MX, 516 the DELPHYS MX elite; any other
\* code is no error and gives a label that holds the code.  The model
\* identified stays as it is once the driver runs, and every later poll
\* cycle reads a status window of 4 registers if and only if the code was 30,
\* and of 6 registers otherwise, unknown codes included.
C12_ExactMatchAndWindowLength ==
    /\ [](IdentifiedExactly /\ StatusWindowByModel)
    /\ [][(pc = "run") => (ups_model' = ups_model)]_vars

\* C12, witness: after the code 516 was identified, a poll cycle read a
\* status window of 6 registers from the device.
C12_Witness ==
    /\ Polled
    /\ ups_model = 516
    /\ last.r.status = 6
    /\ DOMAIN last.win.status = 0 .. 5

-----------------------------------------------------------------------------
(* Properties of the single-register commands (Spec).                      *)

\* The single-register commands and the code of each.
ControlCodes ==
    {<<"load.off", 5>>, <<"load.on", 6>>, <<"beeper.enable", 7>>,
     <<"beeper.mute", 8>>, <<"beeper.disable", 14>>,
     <<"test.panel.start", 13>>, <<"test.battery.start", 16>>}

\* The names instcmd knows.
Vocabulary ==
    {c[1] : c \in ControlCodes}
    \cup {"load.off.delay", "shutdown.return", "shutdown.stayoff"}

\* What a single-register command wrote and returned.
OneRegisterOneCode ==
    \A c \in ControlCodes :
        (last.op = "instcmd" /\ last.cmd = c[1]) =>
            /\ last.writes = <<[addr |-> CONTROL_ADDR, nb |-> 1, val |-> <<c[2]>>]>>
            /\ (last.result = "STAT_INSTCMD_HANDLED") <=> (last.rs = <<1>>)
            /\ (last.rs # <<1>>) => (last.result = "STAT_INSTCMD_FAILED")
            /\ pc = "run"

\* What a name outside the vocabulary wrote and returned.
UnknownWritesNothing ==
    (last.op = "instcmd") =>
        /\ (last.result = "STAT_INSTCMD_UNKNOWN") <=> (last.cmd \notin Vocabulary)
        /\ (last.cmd \notin Vocabulary) => (last.writes = <<>> /\ pc = "run")

\* C13: each single-register command makes one write of one register, its
\* own code, to the control/command register, and returns "handled" exactly
\* when the transport acknowledges 1 register; with 0 registers or an error
\* it returns "failed" and the driver goes on running.  A name outside the
\* vocabulary returns "unknown" and writes nothing; no command changes the
\* state of the driver.
C13_SingleRegisterCommands ==
    /\ [](OneRegisterOneCode /\ UnknownWritesNothing)
    /\ [][(last'.op = "instcmd") =>
             UNCHANGED <<pc, sch_delay_off, sch_min_off, sch_scheduletype,
                         battery_charge_low, ups_model, DISCHARGING_FLAG,
                         exit_flag>>]_vars

\* C13, witness: test.battery.start wrote its code 0x10, the transport
\* acknowledged 0 registers, and the command returned "failed" with the
\* driver still running.
C13_Witness ==
    /\ last.op = "instcmd"
    /\ last.cmd = "test.battery.start"
    /\ last.writes = <<[addr |-> CONTROL_ADDR, nb |-> 1, val |-> <<16>>]>>
    /\ last.rs = <<0>>
    /\ last.result = "STAT_INSTCMD_FAILED"
    /\ pc = "run"

-----------------------------------------------------------------------------
(* Properties of the two low-battery tests (SpecLowBattery).               *)

\* The last poll cycle asserted LB both from bit 15 and from the threshold.
BothPathsFired == Polled /\ {"rule5", "threshold"} \subseteq last.rules

\* C14, as claimed: the two low-battery tests can both fire in one poll
\* cycle: in a driver that started and keeps polling, a cycle comes in which
\* LB is asserted from bit 15, with the threshold at -1, and from the
\* comparison of the battery charge with the threshold.
C14_BothPathsFireInOneCycle == <>(pc = "fatal" \/ BothPathsFired)

\* C14, as amended: the two low-battery tests are alternatives, selected by
\* the threshold.  LB from bit 15 needs the threshold at -1, and no battery
\* charge, a register value of 0 or more, is below -1; LB from the comparison
\* needs a discharging flag and a threshold above the battery charge, so one
\* that is not -1.  No poll cycle asserts LB from both.
C14_LowBatteryPathsAreAlternatives ==
    Polled =>
        LET charge == last.win.measurement[4]
        IN  /\ ~BothPathsFired
            /\ ("rule5" \in last.rules) <=>
                  (HasBit(last.win.status[0], 15) /\ battery_charge_low = -1)
            /\ ("threshold" \in last.rules) <=>
                  (DISCHARGING_FLAG = 1 /\ charge < battery_charge_low)
            /\ ("threshold" \in last.rules) => (battery_charge_low > 0)

\* C14, witness: with the threshold at -1, a cycle on battery with bit 15 set
\* and a failed measurement read, so a battery charge of 0, asserted LB from
\* bit 15 and not from the threshold.
C14_Witness ==
    /\ Polled
    /\ battery_charge_low = -1
    /\ DISCHARGING_FLAG = 1
    /\ last.r.measurement = -1 /\ last.win.measurement[4] = 0
    /\ "rule5" \in last.rules /\ "threshold" \notin last.rules
    /\ "LB" \in last.status

-----------------------------------------------------------------------------
(* Properties of DISCHARGING_FLAG (Spec).                                  *)

\* What the last poll cycle did to the flag, and the flag its low-battery
\* test used.
FlagSetByRule1Or4 ==
    (last.op = "poll") =>
        /\ (last.outcome = "stale") => DISCHARGING_FLAG = last.flagBefore
        /\ Polled =>
              /\ ("rule1" \in last.rules) => DISCHARGING_FLAG = 0
              /\ ("rule4" \in last.rules) => DISCHARGING_FLAG = 1
              /\ (last.rules \cap {"rule1", "rule4"} = {}) =>
                    DISCHARGING_FLAG = last.flagBefore
              /\ (last.r.status = -1) => DISCHARGING_FLAG = last.flagBefore
              /\ ("threshold" \in last.rules) <=>
                    (DISCHARGING_FLAG = 1
                     /\ last.win.measurement[4] < battery_charge_low)

\* C15: DISCHARGING_FLAG is unknown until the first poll cycle; a poll cycle
\* starts with the flag the previous one left, changes it only through rule 1
\* (to not discharging) and rule 4 (to discharging), and leaves it as it was
\* when its status read fails or when neither rule fires, so that its
\* low-battery test uses the flag of the previous cycle; a command, a
\* parameter update and upsdrv_shutdown never change it.
C15_FlagCarriedAcrossCycles ==
    /\ []((pc \in {"initups", "ready"}) => DISCHARGING_FLAG = -1)
    /\ []FlagSetByRule1Or4
    /\ [][(last'.op = "poll") => (last'.flagBefore = DISCHARGING_FLAG)]_vars
    /\ [][(last'.op # "poll") => (DISCHARGING_FLAG' = DISCHARGING_FLAG)]_vars

\* C15, witness: a cycle whose status read failed started with the flag at
\* discharging, kept it, and asserted LB from the threshold.
C15_Witness ==
    /\ Polled
    /\ last.r.status = -1
    /\ last.flagBefore = 1
    /\ DISCHARGING_FLAG = 1
    /\ "threshold" \in last.rules
    /\ "LB" \in last.status

-----------------------------------------------------------------------------
(* Properties of the decode after a failed read (SpecPoll).                *)

\* A failed status read asserts no status: OFF is not published because of
\* it.
FailedStatusReadAssertsNothing ==
    (Polled /\ last.r.status = -1) =>
        /\ last.rules \cap {"rule1", "rule2", "rule3", "rule4", "rule5"} = {}
        /\ "OFF" \notin last.status

\* A failed measurement read asserts no LB from its battery charge of 0.
FailedMeasurementReadAssertsNothing ==
    (Polled /\ last.r.measurement = -1) =>
        /\ "threshold" \notin last.rules
        /\ ("LB" \in last.status) => ("rule5" \in last.rules)

\* C16: the zeroes a failed read leaves are no information, not readings of
\* zero: in every poll cycle a window whose read failed asserts no status; a
\* failed status read does not publish OFF, and a failed measurement read
\* does not assert LB, even when the flag is discharging.
C16_FailedReadAssertsNoStatus ==
    FailedStatusReadAssertsNothing /\ FailedMeasurementReadAssertsNothing

====
